---------------------------- MODULE Spec2Model ----------------------------
(***************************************************************************)
(* pgconf-watch: scripts/check_conferences.py.                             *)
(*                                                                         *)
(* One run of the script fetches the conference page, extracts conference  *)
(* records from its text lines, loads the previous snapshot from disk,     *)
(* diffs the two, optionally posts a GitHub issue and overwrites the       *)
(* snapshot.  Text is modelled character by character: a string is a       *)
(* sequence of one-character strings, so that lower(), strip(), the        *)
(* substring tests and the regular expressions are computed as Python      *)
(* computes them.                                                          *)
(***************************************************************************)
EXTENDS Integers, Sequences, FiniteSets, TLC

VARIABLES
    pc,                      \* position of the script
    run,                     \* number of the current run (the job is a scheduled singleton)
    page,                    \* raw text lines of the page fetched in this run
    file,                    \* data/conferences.json on disk
    file_at_start,           \* history: the file when this run started
    github_token,            \* environment: GITHUB_TOKEN
    github_repository,       \* environment: GITHUB_REPOSITORY
    fetch_status,            \* history: "pending", "ok" or "failed"
    current_conferences,     \* main: current_conferences
    previous_conferences,    \* main: previous_conferences
    changes,                 \* main: changes
    posts,                   \* history: requests.post calls made in this run
    notification,            \* history: what the notification step did in this run
    saved_with,              \* history: argument save_current_data was called with
    exit_code,               \* process exit status of this run
    raised,                  \* history: where an uncaught exception ended this run
    prev_page,               \* history: the page the preceding run fetched
    prev_save,               \* history: how the preceding run left the save step
    prev_notification,       \* history: what the notification step of the preceding run did
    lines,                   \* fetch_conferences: lines
    i,                       \* fetch_conferences: loop index (1-based)
    current_conference,      \* fetch_conferences: current_conference
    in_conference_section,   \* fetch_conferences: in_conference_section
    conferences              \* fetch_conferences: conferences

vars ==
    << pc, run, page, file, file_at_start, github_token, github_repository,
       fetch_status, current_conferences, previous_conferences, changes, posts,
       notification, saved_with, exit_code, raised, prev_page, prev_save,
       prev_notification, lines, i, current_conference, in_conference_section, conferences >>

runVars ==
    << run, page, file, file_at_start, github_token, github_repository,
       fetch_status, previous_conferences, changes, posts, notification,
       saved_with, exit_code, raised, prev_page, prev_save, prev_notification >>

loopVars ==
    << lines, i, current_conference, in_conference_section, conferences >>

-----------------------------------------------------------------------------
(* Bounds of the model.                                                    *)

\* longest line sequence given to the extraction loop
MaxLines == 3
\* characters that follow the trigger word in a generated record name
MaxNameSuffix == 3
\* records in a snapshot given to compare_conferences
MaxSnapshot == 2
\* consecutive runs of the script
MaxRuns == 2

-----------------------------------------------------------------------------
(* Python values.                                                          *)

\* None, where a string may stand: a sequence that is no string of characters
None == << "None" >>
\* {} : the empty dict current_conference starts from
EmptyDict == [py |-> "{}"]
\* a variable that has not been assigned in this run
NotYet == [py |-> "unassigned"]
\* the same for a variable that holds a list of records
NotYetList == << NotYet >>
\* the same for a variable that holds the lines of a page
NoPage == << None >>
\* the process has not exited
Running == [py |-> "running"]

-----------------------------------------------------------------------------
(* Characters and strings.                                                 *)

UpperChars == <<"A", "B", "C", "D", "E", "F", "G", "H", "I", "J", "K", "L", "M", "N", "O", "P", "Q", "R", "S", "T", "U", "V", "W", "X", "Y", "Z">>

LowerChars == <<"a", "b", "c", "d", "e", "f", "g", "h", "i", "j", "k", "l", "m", "n", "o", "p", "q", "r", "s", "t", "u", "v", "w", "x", "y", "z">>

DigitChars == <<"0", "1", "2", "3", "4", "5", "6", "7", "8", "9">>

Letters == { UpperChars[k] : k \in 1..Len(UpperChars) } \cup { LowerChars[k] : k \in 1..Len(LowerChars) }

Digits == { DigitChars[k] : k \in 1..Len(DigitChars) }

\* \s of the regular expressions, and what str.strip() removes
WhitespaceChars == { " ", "\t" }

\* \w
IsWordChar(c) == c \in Letters \cup Digits \cup { "_" }

IsSpaceChar(c) == c \in WhitespaceChars

\* str.lower() on one character
LowerChar(c) ==
    IF \E k \in 1..Len(UpperChars) : UpperChars[k] = c
    THEN LowerChars[CHOOSE k \in 1..Len(UpperChars) : UpperChars[k] = c]
    ELSE c

\* str.lower()
Lower(s) == [k \in 1..Len(s) |-> LowerChar(s[k])]

\* str.strip()
Strip(s) ==
    LET keep == { k \in 1..Len(s) : ~IsSpaceChar(s[k]) }
    IN  IF keep = {} THEN <<>>
        ELSE LET first == CHOOSE k \in keep : \A m \in keep : k <= m
                 last == CHOOSE k \in keep : \A m \in keep : m <= k
             IN  SubSeq(s, first, last)

\* t occurs in s at position k
OccursAt(s, t, k) == k >= 1 /\ k + Len(t) - 1 <= Len(s) /\ SubSeq(s, k, k + Len(t) - 1) = t

\* t in s
Contains(s, t) == \E k \in 1..(Len(s) + 1) : OccursAt(s, t, k)

\* any(word in line.lower() for word in words)
AnyWordIn(words, line) == \E w \in 1..Len(words) : Contains(Lower(line), words[w])

-----------------------------------------------------------------------------
(* fetch_conferences: the vocabularies and the line tests.                 *)

\* line 38
SkipWords ==
    << <<"n", "a", "v", "i", "g", "a", "t", "i", "o", "n">>,
       <<"s", "e", "a", "r", "c", "h">>,
       <<"m", "e", "n", "u">>,
       <<"h", "e", "a", "d", "e", "r">> >>

\* line 42
ConfWords ==
    << <<"p", "g", "c", "o", "n", "f">>,
       <<"p", "g", "d", "a", "y">>,
       <<"p", "o", "s", "t", "g", "r", "e", "s", "q", "l", " ", "c", "o", "n", "f", "e", "r", "e", "n", "c", "e">>,
       <<"n", "o", "r", "d", "i", "c", " ", "p", "g", "d", "a", "y">> >>

\* line 59
MonthNames ==
    << <<"j", "a", "n", "u", "a", "r", "y">>,
       <<"f", "e", "b", "r", "u", "a", "r", "y">>,
       <<"m", "a", "r", "c", "h">>,
       <<"a", "p", "r", "i", "l">>,
       <<"m", "a", "y">>,
       <<"j", "u", "n", "e">>,
       <<"j", "u", "l", "y">>,
       <<"a", "u", "g", "u", "s", "t">>,
       <<"s", "e", "p", "t", "e", "m", "b", "e", "r">>,
       <<"o", "c", "t", "o", "b", "e", "r">>,
       <<"n", "o", "v", "e", "m", "b", "e", "r">>,
       <<"d", "e", "c", "e", "m", "b", "e", "r">> >>

\* line 62
LocationWords ==
    << <<"l", "o", "c", "a", "t", "i", "o", "n", ":">>,
       <<"h", "o", "t", "e", "l">>,
       <<"c", "i", "t", "y">>,
       <<"c", "o", "u", "n", "t", "r", "y">> >>

\* line 65
StatusWords ==
    << <<"c", "a", "l", "l", " ", "f", "o", "r", " ", "p", "a", "p", "e", "r", "s">>,
       <<"r", "e", "g", "i", "s", "t", "r", "a", "t", "i", "o", "n">>,
       <<"s", "c", "h", "e", "d", "u", "l", "e">>,
       <<"p", "u", "b", "l", "i", "s", "h", "e", "d">> >>

IsSkipLine(line) == AnyWordIn(SkipWords, line)

IsConfLine(line) == AnyWordIn(ConfWords, line)

\* re.search(r'\b(january|...|december)', line, re.I): a month name that starts
\* at a word boundary; nothing is required of what follows it
MonthSearch(line) ==
    \E m \in 1..Len(MonthNames) : \E k \in 1..Len(line) :
        /\ OccursAt(Lower(line), MonthNames[m], k)
        /\ (k = 1 \/ ~IsWordChar(line[k - 1]))

IsLocationLine(line) == AnyWordIn(LocationWords, line)

IsStatusLine(line) == AnyWordIn(StatusWords, line)

-----------------------------------------------------------------------------
(* fetch_conferences: the extraction loop (lines 33-77).                   *)

\* lines 46-52
NewConference(line) ==
    [ name |-> Strip(line), details |-> <<>>,
      parsed_date |-> None, location |-> None, status |-> None ]

\* a detail scan that keeps a field once it is set
AddDetailKeepFirst(conf, line) ==
    LET c1 == [conf EXCEPT !.details = Append(@, line)]
        c2 == IF MonthSearch(line) /\ c1.parsed_date = None
              THEN [c1 EXCEPT !.parsed_date = line] ELSE c1
        c3 == IF IsLocationLine(line) /\ c2.location = None
              THEN [c2 EXCEPT !.location = line] ELSE c2
    IN  IF IsStatusLine(line) /\ c3.status = None
        THEN [c3 EXCEPT !.status = line] ELSE c3

\* lines 56-66: the line is appended to details, and each field whose pattern
\* the line matches is assigned the line
AddDetail(conf, line) ==
    LET c1 == [conf EXCEPT !.details = Append(@, line)]
        c2 == IF MonthSearch(line) THEN [c1 EXCEPT !.parsed_date = line] ELSE c1
        c3 == IF IsLocationLine(line) THEN [c2 EXCEPT !.location = line] ELSE c2
    IN  IF IsStatusLine(line) THEN [c3 EXCEPT !.status = line] ELSE c3

\* if current_conference: conferences.append(current_conference)
AppendCurrent(st) ==
    IF st.current_conference # EmptyDict
    THEN Append(st.conferences, st.current_conference)
    ELSE st.conferences

\* the loop body with the trigger test ahead of the noise test
LoopStepTriggerFirst(st, line) ==
    IF IsConfLine(line)
    THEN [ current_conference |-> NewConference(line),
           in_conference_section |-> TRUE,
           conferences |-> AppendCurrent(st) ]
    ELSE IF IsSkipLine(line)
    THEN st
    ELSE IF st.in_conference_section /\ line # <<>>
    THEN [st EXCEPT !.current_conference = AddDetail(@, line)]
    ELSE IF st.in_conference_section /\ line = <<>>
    THEN [ current_conference |-> EmptyDict,
           in_conference_section |-> FALSE,
           conferences |-> AppendCurrent(st) ]
    ELSE st

\* lines 36-73: one iteration of the loop, on the loop's three variables
LoopStep(st, line) ==
    IF IsSkipLine(line)
    THEN st
    ELSE IF IsConfLine(line)
    THEN [ current_conference |-> NewConference(line),
           in_conference_section |-> TRUE,
           conferences |-> AppendCurrent(st) ]
    ELSE IF st.in_conference_section /\ line # <<>>
    THEN [st EXCEPT !.current_conference = AddDetail(@, line)]
    ELSE IF st.in_conference_section /\ line = <<>>
    THEN [ current_conference |-> EmptyDict,
           in_conference_section |-> FALSE,
           conferences |-> AppendCurrent(st) ]
    ELSE st

\* lines 33-34
LoopStart ==
    [ current_conference |-> EmptyDict, in_conference_section |-> FALSE,
      conferences |-> <<>> ]

RECURSIVE LoopFrom(_, _, _)
LoopFrom(st, ls, k) ==
    IF k > Len(ls) THEN st ELSE LoopFrom(LoopStep(st, ls[k]), ls, k + 1)

\* lines 33-77: the whole pass, with the last record added after the loop
ExtractLoop(ls) == AppendCurrent(LoopFrom(LoopStart, ls, 1))

-----------------------------------------------------------------------------
(* fetch_conferences: identifiers and deduplication (lines 79-90).         *)

\* re.sub(r'[^\w\s-]', '', name)
RemoveOtherChars(name) ==
    SelectSeq(name, LAMBDA c : IsWordChar(c) \/ IsSpaceChar(c) \/ c = "-")

\* .replace(' ', '_')
ReplaceSpaces(s) == [k \in 1..Len(s) |-> IF s[k] = " " THEN "_" ELSE s[k]]

\* the identifier without the final lower()
MakeIdNoLower(name) == ReplaceSpaces(Strip(RemoveOtherChars(name)))

\* line 86
MakeId(name) == Lower(ReplaceSpaces(Strip(RemoveOtherChars(name))))

WithId(conf) ==
    [ name |-> conf.name, details |-> conf.details,
      parsed_date |-> conf.parsed_date, location |-> conf.location,
      status |-> conf.status, id |-> MakeId(conf.name) ]

RECURSIVE CleanFrom(_, _, _)
CleanFrom(confs, k, seen_names) ==
    IF k > Len(confs) THEN <<>>
    ELSE IF confs[k].name # <<>> /\ confs[k].name \notin seen_names
         THEN <<WithId(confs[k])>> \o CleanFrom(confs, k + 1, seen_names \cup { confs[k].name })
         ELSE CleanFrom(confs, k + 1, seen_names)

\* lines 80-90
CleanConferences(confs) == CleanFrom(confs, 1, {})

\* line 31: [line.strip() for line in text.split('\n') if line.strip()]
NormalizeLines(text) ==
    LET stripped == [k \in 1..Len(text) |-> Strip(text[k])]
    IN  SelectSeq(stripped, LAMBDA l : l # <<>>)

\* lines 23-90 of fetch_conferences, on the text of the page
ParseConferences(text) == CleanConferences(ExtractLoop(NormalizeLines(text)))

-----------------------------------------------------------------------------
(* Inputs.                                                                 *)

LineEmpty == <<>>

LinePGConfEU == <<"P", "G", "C", "o", "n", "f", " ", "E", "U">>

LinePgconfEuBang == <<"p", "g", "c", "o", "n", "f", " ", "e", "u", "!">>

LineMay2025 == <<"M", "a", "y", " ", "2", "0", "2", "5">>

LineJuneCity == <<"J", "u", "n", "e", " ", "c", "i", "t", "y">>

LineSearchPGDay == <<"S", "e", "a", "r", "c", "h", " ", "P", "G", "D", "a", "y">>

LineSchedule == <<"S", "c", "h", "e", "d", "u", "l", "e">>

LineDismayHotel == <<"D", "i", "s", "m", "a", "y", " ", "h", "o", "t", "e", "l">>

LinePGDay == <<"P", "G", "D", "a", "y">>

LinePGConfUS2025 == <<"P", "G", "C", "o", "n", "f", " ", "U", "S", " ", "2", "0", "2", "5">>

LineOctober2025 == <<"O", "c", "t", "o", "b", "e", "r", " ", "2", "0", "2", "5">>

LineNewYorkCity == <<"N", "e", "w", " ", "Y", "o", "r", "k", " ", "C", "i", "t", "y">>

LineRegistrationOpen == <<"R", "e", "g", "i", "s", "t", "r", "a", "t", "i", "o", "n", " ", "o", "p", "e", "n">>

LinePGDayNordic == <<"P", "G", "D", "a", "y", " ", "N", "o", "r", "d", "i", "c">>

LineCallForPapers == <<"C", "a", "l", "l", " ", "f", "o", "r", " ", "P", "a", "p", "e", "r", "s">>

IdPgconfUs2025 == <<"p", "g", "c", "o", "n", "f", "_", "u", "s", "_", "2", "0", "2", "5">>

IdPgdayNordic == <<"p", "g", "d", "a", "y", "_", "n", "o", "r", "d", "i", "c">>

NamePrefix == <<"P", "G", "C", "o", "n", "f">>

\* lines given to the extraction loop: the empty line, two triggers whose names
\* differ and whose identifiers collide, two lines that match the month
\* pattern, a noise line that also holds a trigger, a status line, and a line
\* whose month name does not start at a word boundary
LineUniverse ==
    { LineEmpty, LinePGConfEU, LinePgconfEuBang, LineMay2025, LineJuneCity,
      LineSearchPGDay, LineSchedule, LineDismayHotel }

RECURSIVE SeqsUpTo(_, _)
SeqsUpTo(S, n) ==
    IF n = 0 THEN { <<>> }
    ELSE LET shorter == SeqsUpTo(S, n - 1)
         IN  shorter \cup { Append(s, x) : s \in { t \in shorter : Len(t) = n - 1 }, x \in S }

ScenarioLines ==
    << LinePGConfUS2025, LineOctober2025, LineNewYorkCity, LineRegistrationOpen,
       LineEmpty, LinePGDayNordic, LineCallForPapers >>

ExtractInputs == SeqsUpTo(LineUniverse, MaxLines) \cup { ScenarioLines }

\* characters that may follow the trigger word in a record name
NameChars == { "A", "b", "2", " ", "\t", "-", "!", "_" }

\* record names: stripped lines that hold a trigger word
NameInputs ==
    { NamePrefix \o s : s \in { t \in SeqsUpTo(NameChars, MaxNameSuffix) : t = <<>> \/ ~IsSpaceChar(t[Len(t)]) } }

-----------------------------------------------------------------------------
(* The extraction loop and the deduplication, step by step.                *)

IdleRun ==
    /\ run = 1
    /\ page = <<>>
    /\ file = [kind |-> "absent"]
    /\ file_at_start = [kind |-> "absent"]
    /\ github_token = None
    /\ github_repository = None
    /\ fetch_status = "ok"
    /\ changes = NotYet
    /\ posts = 0
    /\ notification = "none"
    /\ saved_with = NotYetList
    /\ exit_code = Running
    /\ raised = "none"
    /\ prev_page = NoPage
    /\ prev_save = "none"
    /\ prev_notification = "none"

InitExtract ==
    /\ IdleRun
    /\ previous_conferences = NotYet
    /\ pc = "loop"
    /\ lines \in ExtractInputs
    /\ i = 1
    /\ current_conference = LoopStart.current_conference
    /\ in_conference_section = LoopStart.in_conference_section
    /\ conferences = LoopStart.conferences
    /\ current_conferences = NotYetList

\* one iteration of the for loop at line 36
LoopIteration ==
    /\ pc = "loop"
    /\ i <= Len(lines)
    /\ LET st == LoopStep([ current_conference |-> current_conference,
                            in_conference_section |-> in_conference_section,
                            conferences |-> conferences ], lines[i])
       IN  /\ current_conference' = st.current_conference
           /\ in_conference_section' = st.in_conference_section
           /\ conferences' = st.conferences
    /\ i' = i + 1
    /\ UNCHANGED << pc, lines, current_conferences, runVars >>

\* lines 75-77: the loop is over, the last record is added
LoopEnd ==
    /\ pc = "loop"
    /\ i > Len(lines)
    /\ conferences' = AppendCurrent([ current_conference |-> current_conference,
                                      in_conference_section |-> in_conference_section,
                                      conferences |-> conferences ])
    /\ pc' = "dedup"
    /\ UNCHANGED << lines, i, current_conference, in_conference_section,
                    current_conferences, runVars >>

\* lines 79-90
Deduplicate ==
    /\ pc = "dedup"
    /\ current_conferences' = CleanConferences(conferences)
    /\ pc' = "extracted"
    /\ UNCHANGED << loopVars, runVars >>

NextExtract == LoopIteration \/ LoopEnd \/ Deduplicate

SpecExtract == InitExtract /\ [][NextExtract]_vars

InitSlug ==
    /\ IdleRun
    /\ previous_conferences = NotYet
    /\ pc = "dedup"
    /\ lines = <<>>
    /\ i = 1
    /\ current_conference = EmptyDict
    /\ in_conference_section = FALSE
    /\ \E name \in NameInputs \cup { LinePGConfUS2025 } : conferences = << NewConference(name) >>
    /\ current_conferences = NotYetList

NextSlug == Deduplicate

SpecSlug == InitSlug /\ [][NextSlug]_vars

-----------------------------------------------------------------------------
(* The snapshot file and the values json.load returns.                     *)

\* the file holds valid JSON; value is what json.load returns for it
JsonFile(value) == [kind |-> "json", value |-> value]

\* a list
PyList(items) == [py |-> "list", items |-> items]
\* null
PyNull == [py |-> "NoneType"]
\* a number, such as 1
PyInt == [py |-> "int"]
\* a string, such as a key of a dict
PyStr == [py |-> "str"]
\* {}
PyEmptyDict == [py |-> "dict", keys |-> <<>>]
\* {"a": 1}
PyDict == [py |-> "dict", keys |-> << PyStr >>]

\* lines 93-103.  A missing file gives [].  A file that cannot be opened or read
\* (IOError) and a file that is not JSON (JSONDecodeError) give [].  Bytes that
\* are not UTF-8 raise UnicodeDecodeError, a ValueError the except clause does
\* not name.  Any JSON value is returned as decoded.
LoadPreviousData(f) ==
    CASE f.kind = "absent" -> [raised |-> FALSE, value |-> PyList(<<>>)]
      [] f.kind = "unreadable" -> [raised |-> FALSE, value |-> PyList(<<>>)]
      [] f.kind = "invalid_json" -> [raised |-> FALSE, value |-> PyList(<<>>)]
      [] f.kind = "not_utf8" -> [raised |-> TRUE, value |-> NotYet]
      [] f.kind = "json" -> [raised |-> FALSE, value |-> f.value]

\* len(previous_conferences) at line 279 is defined
HasLen(v) == v.py \in { "list", "dict", "str" }

\* for conf in data
Items(data) == IF data.py = "dict" THEN data.keys ELSE data.items

\* conf[key] is defined
HasKey(conf, key) == key \in DOMAIN conf

\* conf.get(key)
Get(conf, key) == IF HasKey(conf, key) THEN conf[key] ELSE None

\* bool(value) of an environment value: None and '' are false
Truthy(value) == value # None /\ value # <<>>

-----------------------------------------------------------------------------
(* compare_conferences (lines 116-154).                                    *)

\* lines 118-119 raise: an item without an 'id'
CompareRaises(old_data, new_data) ==
    \/ \E k \in 1..Len(Items(old_data)) : ~HasKey(Items(old_data)[k], "id")
    \/ \E k \in 1..Len(Items(new_data)) : ~HasKey(Items(new_data)[k], "id")

\* set(conferences.keys())
Ids(data) == { Items(data)[k].id : k \in 1..Len(Items(data)) }

\* a dict comprehension in which the first record of an id wins
ByIdFirstWins(data, id) ==
    LET at == { k \in 1..Len(Items(data)) : Items(data)[k].id = id }
    IN  Items(data)[CHOOSE k \in at : \A m \in at : k <= m]

\* {conf['id']: conf for conf in data}[id]: the last record of an id wins
ById(data, id) ==
    LET at == { k \in 1..Len(Items(data)) : Items(data)[k].id = id }
    IN  Items(data)[CHOOSE k \in at : \A m \in at : m <= k]

\* lines 131-132
Added(old_data, new_data) ==
    { ById(new_data, id) : id \in Ids(new_data) \ Ids(old_data) }

\* lines 135-136
Removed(old_data, new_data) ==
    { ById(old_data, id) : id \in Ids(old_data) \ Ids(new_data) }

\* lines 144-147
Differs(old_conf, new_conf) ==
    \/ Get(old_conf, "details") # Get(new_conf, "details")
    \/ Get(old_conf, "parsed_date") # Get(new_conf, "parsed_date")
    \/ Get(old_conf, "location") # Get(new_conf, "location")
    \/ Get(old_conf, "status") # Get(new_conf, "status")

\* lines 139-152
Modified(old_data, new_data) ==
    { [id |-> id, old |-> ById(old_data, id), new |-> ById(new_data, id)] :
        id \in { x \in Ids(old_data) \cap Ids(new_data) :
                    Differs(ById(old_data, x), ById(new_data, x)) } }

\* the lists a loop over the Python set S can build: its elements, each once, in
\* the order the set happens to iterate in
Orderings(S) ==
    { s \in [1..Cardinality(S) -> S] : \A x \in S : \E k \in 1..Cardinality(S) : s[k] = x }

\* the values compare_conferences can return
CompareConferences(old_data, new_data) ==
    [ added : Orderings(Added(old_data, new_data)),
      removed : Orderings(Removed(old_data, new_data)),
      modified : Orderings(Modified(old_data, new_data)) ]

-----------------------------------------------------------------------------
(* create_issue_body (lines 157-232) and create_github_issue (235-266).    *)

\* create_issue_body raises KeyError: conf['name'] at line 173 for a removed
\* record without a name.  Added and current records come from the extraction
\* and have every key.
IssueBodyRaises(ch) ==
    Len(ch.removed) > 0 /\ \E k \in 1..Len(ch.removed) : ~HasKey(ch.removed[k], "name")

\* line 284
TotalChanges(ch) == Len(ch.added) + Len(ch.removed) + Len(ch.modified)

\* line 286
ShouldNotify(ch) == TotalChanges(ch) > 0

\* lines 296 and 240: the token is set, and the token and the repository are set
HasCredentials(token, repository) ==
    Truthy(token) /\ ~(~Truthy(token) \/ ~Truthy(repository))

\* what requests.post and raise_for_status can do at lines 258-259; the body of
\* a 2xx answer is the one the GitHub API documents (number, html_url)
PostOutcomes == { "issue_created", "http_error", "transport_error" }

-----------------------------------------------------------------------------
(* Inputs of a run.                                                        *)

TokenValue == << "t" >>

RepositoryValue == << "o", "/", "r" >>

\* the text of the page, as its raw lines (text_content.split('\n'))
Pages ==
    { <<>>,
      << LinePGConfEU >>,
      << LinePGConfEU, LineMay2025 >>,
      << LinePGConfEU, LineEmpty, LinePgconfEuBang >>,
      << << " " >> \o LinePGDay >>,
      << LinePGConfEU, LinePGDay, LineSchedule >> }

\* a stored record without a name, and one without an id
RecordWithoutName == [id |-> Lower(LinePGDay), details |-> <<>>]

RecordWithoutId == [name |-> LinePGDay, details |-> <<>>]

\* what data/conferences.json can be when the first run starts: missing,
\* unreadable, not UTF-8, not JSON, JSON of another shape, or a snapshot
InitialFiles ==
    { [kind |-> "absent"], [kind |-> "unreadable"], [kind |-> "not_utf8"],
      [kind |-> "invalid_json"],
      JsonFile(PyNull), JsonFile(PyDict), JsonFile(PyEmptyDict),
      JsonFile(PyList(<< PyInt >>)), JsonFile(PyList(<< RecordWithoutName >>)),
      JsonFile(PyList(<< RecordWithoutId >>)) }
    \cup { JsonFile(PyList(ParseConferences(p))) : p \in Pages }

-----------------------------------------------------------------------------
(* One run of main (lines 269-307), and the next run.                      *)

IdleLoop ==
    /\ lines = <<>>
    /\ i = 1
    /\ current_conference = EmptyDict
    /\ in_conference_section = FALSE
    /\ conferences = <<>>

Init ==
    /\ IdleLoop
    /\ pc = "fetch"
    /\ run = 1
    /\ page = NoPage
    /\ file \in InitialFiles
    /\ file_at_start = file
    /\ github_token \in { None, <<>>, TokenValue }
    /\ github_repository \in { None, RepositoryValue }
    /\ fetch_status = "pending"
    /\ current_conferences = NotYetList
    /\ previous_conferences = NotYet
    /\ changes = NotYet
    /\ posts = 0
    /\ notification = "none"
    /\ saved_with = NotYetList
    /\ exit_code = Running
    /\ raised = "none"
    /\ prev_page = NoPage
    /\ prev_save = "none"
    /\ prev_notification = "none"

\* a fetch failure that is reported and not fatal
FetchFailsContinue ==
    /\ pc = "fetch"
    /\ fetch_status' = "failed"
    /\ page' = <<>>
    /\ current_conferences' = <<>>
    /\ pc' = "load"
    /\ UNCHANGED << run, file, file_at_start, github_token, github_repository,
                    previous_conferences, changes, posts, notification, saved_with,
                    exit_code, raised, prev_page, prev_save, prev_notification, loopVars >>

\* lines 16-21: requests.get or raise_for_status raises RequestException,
\* the error is printed and sys.exit(1) ends the run
FetchFails ==
    /\ pc = "fetch"
    /\ fetch_status' = "failed"
    /\ exit_code' = [status |-> 1]
    /\ pc' = "exited"
    /\ UNCHANGED << run, page, file, file_at_start, github_token, github_repository,
                    current_conferences, previous_conferences, changes, posts,
                    notification, saved_with, raised, prev_page, prev_save, prev_notification, loopVars >>

\* lines 273-275 with lines 17-90: the page is fetched and parsed
FetchSucceeds ==
    /\ pc = "fetch"
    /\ \E p \in Pages :
          /\ page' = p
          /\ current_conferences' = ParseConferences(p)
    /\ fetch_status' = "ok"
    /\ pc' = "load"
    /\ UNCHANGED << run, file, file_at_start, github_token, github_repository,
                    previous_conferences, changes, posts, notification, saved_with,
                    exit_code, raised, prev_page, prev_save, prev_notification, loopVars >>

\* an uncaught exception ends the run with a traceback and status 1
Crash(where) ==
    /\ pc' = "crashed"
    /\ raised' = where
    /\ exit_code' = [status |-> 1]

\* lines 277-279: the previous snapshot is loaded and its length printed
LoadPrevious ==
    /\ pc = "load"
    /\ LET got == LoadPreviousData(file)
       IN  IF got.raised
           THEN Crash("load_previous_data") /\ UNCHANGED previous_conferences
           ELSE /\ previous_conferences' = got.value
                /\ IF HasLen(got.value)
                   THEN pc' = "compare" /\ UNCHANGED << raised, exit_code >>
                   ELSE Crash("len")
    /\ UNCHANGED << run, page, file, file_at_start, github_token, github_repository,
                    fetch_status, current_conferences, changes, posts, notification,
                    saved_with, prev_page, prev_save, prev_notification, loopVars >>

\* lines 281-282
Compare ==
    /\ pc = "compare"
    /\ IF CompareRaises(previous_conferences, PyList(current_conferences))
       THEN Crash("compare_conferences") /\ UNCHANGED changes
       ELSE /\ changes' \in CompareConferences(previous_conferences, PyList(current_conferences))
            /\ pc' = "notify"
            /\ UNCHANGED << raised, exit_code >>
    /\ UNCHANGED << run, page, file, file_at_start, github_token, github_repository,
                    fetch_status, current_conferences, previous_conferences, posts,
                    notification, saved_with, prev_page, prev_save, prev_notification, loopVars >>

\* lines 284-302 with create_github_issue: no change is reported, or the issue
\* body is built and the issue is posted if the credentials are there; whatever
\* the POST does is printed and the run goes on
Notify ==
    /\ pc = "notify"
    /\ IF ~ShouldNotify(changes)
       THEN /\ notification' = "no_changes"
            /\ pc' = "save"
            /\ UNCHANGED << posts, raised, exit_code >>
       ELSE IF IssueBodyRaises(changes)
       THEN Crash("create_issue_body") /\ UNCHANGED << posts, notification >>
       ELSE IF ~HasCredentials(github_token, github_repository)
       THEN /\ notification' = IF Truthy(github_token) THEN "skipped_no_repository"
                                                       ELSE "skipped_no_token"
            /\ pc' = "save"
            /\ UNCHANGED << posts, raised, exit_code >>
       ELSE /\ posts' = posts + 1
            /\ notification' \in PostOutcomes
            /\ pc' = "save"
            /\ UNCHANGED << raised, exit_code >>
    /\ UNCHANGED << run, page, file, file_at_start, github_token, github_repository,
                    fetch_status, current_conferences, previous_conferences, changes,
                    saved_with, prev_page, prev_save, prev_notification, loopVars >>

\* a save that reports success and leaves the file as it was
SaveSucceedsKeepsFile ==
    /\ pc = "save"
    /\ saved_with' = current_conferences
    /\ exit_code' = [status |-> 0]
    /\ pc' = "done"
    /\ UNCHANGED << run, page, file, file_at_start, github_token, github_repository,
                    fetch_status, current_conferences, previous_conferences, changes,
                    posts, notification, raised, prev_page, prev_save,
                    prev_notification, loopVars >>

\* lines 304-307 with lines 108-110: the snapshot file is overwritten
SaveSucceeds ==
    /\ pc = "save"
    /\ saved_with' = current_conferences
    /\ file' = JsonFile(PyList(current_conferences))
    /\ exit_code' = [status |-> 0]
    /\ pc' = "done"
    /\ UNCHANGED << run, page, file_at_start, github_token, github_repository,
                    fetch_status, current_conferences, previous_conferences, changes,
                    posts, notification, raised, prev_page, prev_save, prev_notification, loopVars >>

\* lines 304-305 with lines 111-113: open or write raises IOError, the error is
\* printed and sys.exit(1) ends the run.  The file is as it was when open
\* failed, and cut short when a write failed
SaveFails ==
    /\ pc = "save"
    /\ saved_with' = current_conferences
    /\ file' \in { file, [kind |-> "invalid_json"] }
    /\ exit_code' = [status |-> 1]
    /\ pc' = "exited"
    /\ UNCHANGED << run, page, file_at_start, github_token, github_repository,
                    fetch_status, current_conferences, previous_conferences, changes,
                    posts, notification, raised, prev_page, prev_save, prev_notification, loopVars >>

RunOver == pc \in { "done", "exited", "crashed" }

\* the scheduler starts the script again: a new process, the same environment,
\* the file as the last run left it
NextRun ==
    /\ RunOver
    /\ run < MaxRuns
    /\ run' = run + 1
    /\ pc' = "fetch"
    /\ prev_page' = IF fetch_status = "ok" THEN page ELSE NoPage
    /\ prev_save' = IF pc = "done" THEN "saved"
                    ELSE IF saved_with # NotYetList THEN "failed" ELSE "not_reached"
    /\ prev_notification' = notification
    /\ file_at_start' = file
    /\ page' = NoPage
    /\ fetch_status' = "pending"
    /\ current_conferences' = NotYetList
    /\ previous_conferences' = NotYet
    /\ changes' = NotYet
    /\ posts' = 0
    /\ notification' = "none"
    /\ saved_with' = NotYetList
    /\ exit_code' = Running
    /\ raised' = "none"
    /\ UNCHANGED << file, github_token, github_repository, loopVars >>

Next ==
    \/ FetchFails
    \/ FetchSucceeds
    \/ LoadPrevious
    \/ Compare
    \/ Notify
    \/ SaveSucceeds
    \/ SaveFails
    \/ NextRun

Spec == Init /\ [][Next]_vars

-----------------------------------------------------------------------------
(* compare_conferences on any two snapshots.                               *)

StoredRecord(name, id, details, parsed_date, location, status) ==
    [ name |-> name, details |-> details, parsed_date |-> parsed_date,
      location |-> location, status |-> status, id |-> id ]

IdA == Lower(ReplaceSpaces(LinePGConfEU))

IdB == Lower(LinePGDay)

\* records of two ids; those of the first differ in one field each
RecordUniverse ==
    { StoredRecord(LinePGConfEU, IdA, <<>>, None, None, None),
      StoredRecord(LinePgconfEuBang, IdA, <<>>, None, None, None),
      StoredRecord(LinePGConfEU, IdA, << LineDismayHotel >>, None, None, None),
      StoredRecord(LinePGConfEU, IdA, <<>>, LineMay2025, None, None),
      StoredRecord(LinePGConfEU, IdA, <<>>, None, LineJuneCity, None),
      StoredRecord(LinePGConfEU, IdA, <<>>, None, None, LineSchedule),
      StoredRecord(LinePGDay, IdB, <<>>, None, None, None) }

Snapshots == SeqsUpTo(RecordUniverse, MaxSnapshot)

InitCompare ==
    /\ IdleLoop
    /\ IdleRun
    /\ pc = "compare"
    /\ previous_conferences \in { PyList(s) : s \in Snapshots }
    /\ current_conferences \in Snapshots

NextCompare == Compare

SpecCompare == InitCompare /\ [][NextCompare]_vars

-----------------------------------------------------------------------------
(* Properties of the extraction loop.                                      *)

\* rank of k in the set S of integers
RankIn(S, k) == Cardinality({ m \in S : m <= k })

\* the lines that start a record: a trigger term and no noise term
RecordStarts(ls) == { k \in 1..Len(ls) : IsConfLine(ls[k]) /\ ~IsSkipLine(ls[k]) }

\* the first line after t that starts a record or is empty, or the end of input
SectionEnd(ls, t) ==
    LET stops == { k \in (t + 1)..Len(ls) : k \in RecordStarts(ls) \/ ls[k] = <<>> }
    IN  IF stops = {} THEN Len(ls) + 1 ELSE CHOOSE k \in stops : \A m \in stops : k <= m

\* the detail lines of the record started at t
DetailLines(ls, t) == { k \in (t + 1)..(SectionEnd(ls, t) - 1) : ~IsSkipLine(ls[k]) }

\* conf is the record the claim describes for the start t of ls
IsRecordOf(conf, ls, t) ==
    /\ conf.name = ls[t]
    /\ Len(conf.details) = Cardinality(DetailLines(ls, t))
    /\ \A k \in DetailLines(ls, t) :
          /\ ls[k] # <<>>
          /\ ~IsConfLine(ls[k])
          /\ conf.details[RankIn(DetailLines(ls, t), k)] = ls[k]

ScenarioRecords ==
    << [ name |-> LinePGConfUS2025,
         details |-> << LineOctober2025, LineNewYorkCity, LineRegistrationOpen >>,
         parsed_date |-> LineOctober2025, location |-> LineNewYorkCity,
         status |-> LineRegistrationOpen, id |-> IdPgconfUs2025 ],
       [ name |-> LinePGDayNordic, details |-> << LineCallForPapers >>,
         parsed_date |-> None, location |-> None,
         status |-> LineCallForPapers, id |-> IdPgdayNordic ] >>

\* C9: when the pass over a line sequence is over, the emitted records are, in
\* source order, one per line that holds a trigger term and no noise term, named
\* by that line, with exactly the non-noise lines up to the next trigger line,
\* empty line or end of input as details; and the seven scenario lines give the
\* two scenario records.
C9_ExtractorEmitsSections ==
    pc \in { "dedup", "extracted" } =>
        /\ Len(conferences) = Cardinality(RecordStarts(lines))
        /\ \A t \in RecordStarts(lines) :
              IsRecordOf(conferences[RankIn(RecordStarts(lines), t)], lines, t)
        /\ (pc = "extracted" /\ lines = ScenarioLines) => current_conferences = ScenarioRecords

\* C9 witness: the scenario has been extracted into its two records.
C9_Witness ==
    /\ pc = "extracted"
    /\ lines = ScenarioLines
    /\ Len(current_conferences) = 2
    /\ Len(current_conferences[1].details) = 3

\* the records scanned so far: the emitted ones and the one being built
ScannedRecords ==
    IF pc = "loop" /\ current_conference # EmptyDict
    THEN Append(conferences, current_conference)
    ELSE conferences

\* the test that sets a field of a record
FieldTest(field, line) ==
    CASE field = "parsed_date" -> MonthSearch(line)
      [] field = "location" -> IsLocationLine(line)
      [] field = "status" -> IsStatusLine(line)

MatchingDetails(details, field) == { k \in 1..Len(details) : FieldTest(field, details[k]) }

FirstMatching(details, field) ==
    LET hits == MatchingDetails(details, field)
    IN  IF hits = {} THEN None ELSE details[CHOOSE k \in hits : \A m \in hits : k <= m]

LastMatching(details, field) ==
    LET hits == MatchingDetails(details, field)
    IN  IF hits = {} THEN None ELSE details[CHOOSE k \in hits : \A m \in hits : m <= k]

ParsedFields == { "parsed_date", "location", "status" }

\* C8 as claimed: each of parsed_date, location and status of a record is the
\* first detail line of the record that matches the field's pattern, or unset if
\* none does.
C8_FirstMatchWins ==
    \A k \in 1..Len(ScannedRecords) :
        \A field \in ParsedFields :
            ScannedRecords[k][field] = FirstMatching(ScannedRecords[k].details, field)

\* C8 amended: each of parsed_date, location and status of a record is the LAST
\* detail line of the record that matches the field's pattern (a later matching
\* line overwrites an earlier one), or unset if none does.
C8_LastMatchWins ==
    \A k \in 1..Len(ScannedRecords) :
        \A field \in ParsedFields :
            ScannedRecords[k][field] = LastMatching(ScannedRecords[k].details, field)

\* C8 witness: a record with two different detail lines that match the month
\* pattern has been scanned.
C8_Witness ==
    \E k \in 1..Len(ScannedRecords) :
        /\ Cardinality({ ScannedRecords[k].details[m] :
                           m \in MatchingDetails(ScannedRecords[k].details, "parsed_date") }) >= 2
        /\ ScannedRecords[k].parsed_date # None

\* C5 as claimed: no two records of the deduplicated sequence have the same id.
C5_IdsUnique ==
    pc = "extracted" =>
        \A a, b \in 1..Len(current_conferences) :
            current_conferences[a].id = current_conferences[b].id => a = b

-----------------------------------------------------------------------------
(* Properties of the identifier.                                           *)

\* the identifier as claimed: lowercase, drop what is neither a word character
\* nor whitespace, trim, one underscore per run of whitespace
RECURSIVE ClaimedTrimLeft(_)
ClaimedTrimLeft(s) ==
    IF s # <<>> /\ IsSpaceChar(s[1]) THEN ClaimedTrimLeft(Tail(s)) ELSE s

RECURSIVE ClaimedTrimRight(_)
ClaimedTrimRight(s) ==
    IF s # <<>> /\ IsSpaceChar(s[Len(s)]) THEN ClaimedTrimRight(SubSeq(s, 1, Len(s) - 1)) ELSE s

RECURSIVE ClaimedCollapse(_)
ClaimedCollapse(s) ==
    IF s = <<>> THEN <<>>
    ELSE IF ~IsSpaceChar(s[1]) THEN <<s[1]>> \o ClaimedCollapse(Tail(s))
    ELSE IF Len(s) > 1 /\ IsSpaceChar(s[2]) THEN ClaimedCollapse(Tail(s))
    ELSE <<"_">> \o ClaimedCollapse(Tail(s))

ClaimedId(name) ==
    LET lowered == [k \in 1..Len(name) |-> LowerChar(name[k])]
        kept == SelectSeq(lowered, LAMBDA c : IsWordChar(c) \/ IsSpaceChar(c))
    IN  ClaimedCollapse(ClaimedTrimRight(ClaimedTrimLeft(kept)))

\* the identifier as amended: drop what is neither a word character, whitespace
\* nor a hyphen, trim, then character by character: a space becomes an
\* underscore, any other character its lowercase
AmendedId(name) ==
    LET kept == SelectSeq(name, LAMBDA c : IsWordChar(c) \/ IsSpaceChar(c) \/ c = "-")
        trimmed == ClaimedTrimRight(ClaimedTrimLeft(kept))
    IN  [k \in 1..Len(trimmed) |-> IF trimmed[k] = " " THEN "_" ELSE LowerChar(trimmed[k])]

\* C7 as claimed: the id of every kept record is its name lowercased, stripped of
\* every character that is neither a word character nor whitespace, trimmed, with
\* each run of whitespace replaced by one underscore.
C7_IdAsClaimed ==
    pc = "extracted" =>
        \A k \in 1..Len(current_conferences) :
            current_conferences[k].id = ClaimedId(current_conferences[k].name)

\* C7 amended: the id of every kept record is its name stripped of every
\* character that is neither a word character, whitespace nor a hyphen, trimmed,
\* with EACH space replaced by an underscore (n spaces give n underscores, other
\* whitespace is kept), lowercased; "PGConf US 2025" gives "pgconf_us_2025".
C7_IdAsComputed ==
    pc = "extracted" =>
        \A k \in 1..Len(current_conferences) :
            /\ current_conferences[k].id = AmendedId(current_conferences[k].name)
            /\ current_conferences[k].name = LinePGConfUS2025
                  => current_conferences[k].id = IdPgconfUs2025

\* C7 witness: a name with a hyphen has been given its id, hyphen kept.
C7_Witness ==
    /\ pc = "extracted"
    /\ Len(current_conferences) = 1
    /\ current_conferences[1].name = NamePrefix \o << "-", "A" >>
    /\ current_conferences[1].id = << "p", "g", "c", "o", "n", "f", "-", "a" >>

-----------------------------------------------------------------------------
(* Properties of a run.                                                    *)

\* C1 as claimed: a run whose fetch succeeded ends only after save_current_data
\* was called with current_conferences, whatever the notification step did.
C1_FetchedRunReachesSave ==
    (RunOver /\ fetch_status = "ok") => saved_with = current_conferences

\* C2: when the fetch fails the run has exited with status 1 and has parsed
\* nothing, loaded nothing, compared nothing, posted nothing and saved nothing:
\* the snapshot file is as it was when the run started.
C2_FetchFailureIsFatal ==
    fetch_status = "failed" =>
        /\ pc = "exited"
        /\ exit_code = [status |-> 1]
        /\ current_conferences = NotYetList
        /\ previous_conferences = NotYet
        /\ changes = NotYet
        /\ posts = 0
        /\ saved_with = NotYetList
        /\ file = file_at_start

\* C2 witness: a second run, whose snapshot file the first run wrote, has failed
\* to fetch.
C2_Witness ==
    /\ fetch_status = "failed"
    /\ pc = "exited"
    /\ run = 2
    /\ prev_save = "saved"
    /\ file.kind = "json"

\* the diff of this run is computed and has no entry
DiffIsEmpty == changes # NotYet /\ TotalChanges(changes) = 0

\* C3 as claimed: a run posts at most once, and only with a non-empty diff and
\* both the token and the repository set; with an empty diff, or with either
\* value missing, it posts nothing and no error ends it: it goes on to the save
\* step.
C3_PostOnlyOnChangeWithCredentials ==
    /\ posts <= 1
    /\ posts = 1 =>
          /\ changes # NotYet
          /\ TotalChanges(changes) > 0
          /\ Truthy(github_token)
          /\ Truthy(github_repository)
    /\ (changes # NotYet /\ (DiffIsEmpty \/ ~Truthy(github_token) \/ ~Truthy(github_repository))) =>
          /\ posts = 0
          /\ pc # "crashed"

\* every key of a stored record
RecordKeys == { "name", "details", "parsed_date", "location", "status", "id" }

\* a JSON array of record objects
IsSnapshotValue(v) ==
    /\ v.py = "list"
    /\ \A k \in 1..Len(v.items) : DOMAIN v.items[k] = RecordKeys

\* C6 as claimed: load_previous_data raises nothing and returns a sequence of
\* records: the stored records when the file holds a JSON array of record
\* objects, and the empty sequence when the file is missing, is not valid JSON
\* or is JSON of another structure.
C6_LoadReturnsRecordsOrEmpty ==
    /\ raised # "load_previous_data"
    /\ previous_conferences # NotYet =>
          /\ IsSnapshotValue(previous_conferences)
          /\ previous_conferences =
                IF file_at_start.kind = "json" /\ IsSnapshotValue(file_at_start.value)
                THEN file_at_start.value
                ELSE PyList(<<>>)

\* this run fetched the page the preceding run fetched
SamePageAgain == run > 1 /\ fetch_status = "ok" /\ page = prev_page

\* what a run that repeats a saved page must do: load what was saved, compute an
\* empty diff, post nothing
RepeatsQuietly ==
    /\ raised = "none"
    /\ posts = 0
    /\ previous_conferences # NotYet => previous_conferences = PyList(current_conferences)
    /\ changes # NotYet => TotalChanges(changes) = 0
    /\ notification \in { "none", "no_changes" }

\* C10 as claimed: after a run that reached the save step, a run that fetches
\* the same page loads the saved snapshot, computes an empty diff and posts
\* nothing.
C10_QuietAfterSaveStep ==
    (SamePageAgain /\ prev_save \in { "saved", "failed" }) => RepeatsQuietly

\* C10 amended: after a run whose save step SUCCEEDED (the file was written), a
\* run that fetches the same page loads the saved snapshot, computes an empty
\* diff and posts nothing; this includes a run whose notification was skipped or
\* failed.  A run whose save fails with IOError leaves the old or a cut-short
\* file, and the next run reports the change again.
C10_QuietAfterSuccessfulSave ==
    (SamePageAgain /\ prev_save = "saved") => RepeatsQuietly

\* C10 witness: the preceding run found changes, failed to post them and saved;
\* this run fetched the same page and is over without a post.
C10_Witness ==
    /\ SamePageAgain
    /\ prev_save = "saved"
    /\ prev_notification \in { "http_error", "transport_error" }
    /\ pc = "done"
    /\ notification = "no_changes"
    /\ posts = 0
    /\ current_conferences # <<>>

-----------------------------------------------------------------------------
(* Properties of compare_conferences.                                      *)

Range(s) == { s[k] : k \in 1..Len(s) }

NoRepeats(s) == Len(s) = Cardinality(Range(s))

OldRecords == Range(previous_conferences.items)

NewRecords == Range(current_conferences)

IdsOf(records) == { r.id : r \in records }

\* the four compared fields of two records differ
FieldsDiffer(o, n) ==
    \E f \in { "details", "parsed_date", "location", "status" } : o[f] # n[f]

\* the last record of a snapshot that has the id
LastWith(snapshot, id) ==
    snapshot[CHOOSE k \in 1..Len(snapshot) :
                /\ snapshot[k].id = id
                /\ \A m \in (k + 1)..Len(snapshot) : snapshot[m].id # id]

\* C4 as claimed: added is exactly the new records whose id is not in old,
\* removed exactly the old records whose id is not in new, modified exactly one
\* entry {id, old, new} per id of both whose four fields differ.
C4_DiffAsClaimed ==
    pc = "notify" =>
        /\ Range(changes.added) = { r \in NewRecords : r.id \notin IdsOf(OldRecords) }
        /\ Range(changes.removed) = { r \in OldRecords : r.id \notin IdsOf(NewRecords) }
        /\ Range(changes.modified) =
              { [id |-> o.id, old |-> o, new |-> n] :
                  <<o, n>> \in { q \in OldRecords \X NewRecords :
                                    q[1].id = q[2].id /\ FieldsDiffer(q[1], q[2]) } }
        /\ \A a, b \in 1..Len(changes.modified) :
              changes.modified[a].id = changes.modified[b].id => a = b

\* C4 amended: with each id standing for the LAST record of its snapshot that
\* carries it: added is exactly, once each, the records of the ids of new that
\* are not in old; removed exactly, once each, the records of the ids of old
\* that are not in new; modified exactly one entry {id, old, new} per id of both
\* whose two records differ in details, parsed_date, location or status.  For
\* snapshots without a repeated id this is the claim; old = [x], new = [] gives
\* removed = [x], added = [], modified = [], and old = new gives three empty
\* lists.
C4_DiffLastWins ==
    pc = "notify" =>
        LET old == previous_conferences.items
            new == current_conferences
            oldIds == IdsOf(OldRecords)
            newIds == IdsOf(NewRecords)
        IN  /\ NoRepeats(changes.added)
            /\ NoRepeats(changes.removed)
            /\ NoRepeats(changes.modified)
            /\ Range(changes.added) = { LastWith(new, id) : id \in newIds \ oldIds }
            /\ Range(changes.removed) = { LastWith(old, id) : id \in oldIds \ newIds }
            /\ Range(changes.modified) =
                  { [id |-> id, old |-> LastWith(old, id), new |-> LastWith(new, id)] :
                      id \in { x \in oldIds \cap newIds :
                                  FieldsDiffer(LastWith(old, x), LastWith(new, x)) } }
            /\ (Len(old) = 1 /\ new = <<>>) =>
                   /\ changes.removed = old
                   /\ changes.added = <<>>
                   /\ changes.modified = <<>>
            /\ old = new => TotalChanges(changes) = 0

\* C4 witness: a diff with an added and a modified entry has been computed from
\* a new snapshot in which one id occurs twice.
C4_Witness ==
    /\ pc = "notify"
    /\ Len(current_conferences) = 2
    /\ current_conferences[1].id = current_conferences[2].id
    /\ current_conferences[1] # current_conferences[2]
    /\ Len(changes.modified) = 1

=============================================================================
